---------------------------- MODULE Spec2Model ----------------------------
(***************************************************************************)
(* PSUR report assembler: the extractors of sections 5.2, 5.3 and 6.3 and  *)
(* the orchestration in run_file.main.                                     *)
(*                                                                         *)
(* Text is a sequence of one-character strings, so that strip, casefold,   *)
(* replace, split and numeric parsing are computed and not assumed.        *)
(* An optional number is a sequence: <<>> when missing (NaN, and the blank *)
(* "" that fillna("") writes), <<n>> when present.                         *)
(***************************************************************************)
EXTENDS Integers, Sequences, FiniteSets, TLC

VARIABLES exposure, locator, textx, soc, run

vars == <<exposure, locator, textx, soc, run>>

(***************************************************************************)
(* Bounds of the model.                                                    *)
(***************************************************************************)
\* rows of a sales frame whose cells are drawn freely
MaxRows == 2
\* rows of a sales frame whose numeric cells are fixed and countries vary
MaxCountryRows == 4

(***************************************************************************)
(* Text helpers (str.strip, str.casefold, str.replace, str.split).         *)
(***************************************************************************)
Digits == <<"0", "1", "2", "3", "4", "5", "6", "7", "8", "9">>

UpperCase == <<"A", "B", "C", "D", "E", "F", "G", "H", "I", "J", "K", "L", "M",
               "N", "O", "P", "Q", "R", "S", "T", "U", "V", "W", "X", "Y", "Z">>

LowerCase == <<"a", "b", "c", "d", "e", "f", "g", "h", "i", "j", "k", "l", "m",
               "n", "o", "p", "q", "r", "s", "t", "u", "v", "w", "x", "y", "z">>

DigitSet == {Digits[i] : i \in DOMAIN Digits}

IsDigit(c) == c \in DigitSet

DigitValues == [c \in DigitSet |-> (CHOOSE i \in DOMAIN Digits : Digits[i] = c) - 1]

DigitVal(c) == DigitValues[c]

UpperSet == {UpperCase[i] : i \in DOMAIN UpperCase}

Folded == [c \in UpperSet |-> LowerCase[CHOOSE i \in DOMAIN UpperCase : UpperCase[i] = c]]

\* str.casefold on one character
FoldChar(c) == IF c \in UpperSet THEN Folded[c] ELSE c

Casefold(s) == [i \in DOMAIN s |-> FoldChar(s[i])]

RECURSIVE LStrip(_)
LStrip(s) == IF s # <<>> /\ Head(s) = " " THEN LStrip(Tail(s)) ELSE s

RECURSIVE RStrip(_)
RStrip(s) ==
    IF s # <<>> /\ s[Len(s)] = " " THEN RStrip(SubSeq(s, 1, Len(s) - 1)) ELSE s

\* str.strip
Strip(s) == RStrip(LStrip(s))

\* str.replace(c, "") for a one-character c
RemoveChar(s, c) == SelectSeq(s, LAMBDA x : x # c)

\* str.replace("mg", "") : every non-overlapping occurrence, left to right
RECURSIVE RemoveMg(_)
RemoveMg(s) ==
    IF Len(s) < 2 THEN s
    ELSE IF s[1] = "m" /\ s[2] = "g" THEN RemoveMg(SubSeq(s, 3, Len(s)))
    ELSE <<Head(s)>> \o RemoveMg(Tail(s))

\* positions of the character c in s
Positions(s, c) == {i \in DOMAIN s : s[i] = c}

Max(S) == CHOOSE x \in S : \A y \in S : y <= x

Min(S) == CHOOSE x \in S : \A y \in S : x <= y

\* str.split(c).str[-1] : the text after the last c (all of s without a c)
AfterLast(s, c) ==
    IF Positions(s, c) = {} THEN s
    ELSE SubSeq(s, Max(Positions(s, c)) + 1, Len(s))

RECURSIVE DigitsValue(_, _)
DigitsValue(s, acc) ==
    IF s = <<>> THEN acc ELSE DigitsValue(Tail(s), acc * 10 + DigitVal(Head(s)))

\* pd.to_numeric(errors="coerce") on the unsigned integer texts of the model:
\* a non-empty run of digits parses, anything else is NaN.
ToNumeric(s) ==
    IF s # <<>> /\ \A i \in DOMAIN s : IsDigit(s[i])
    THEN <<DigitsValue(s, 0)>>
    ELSE <<>>

Missing == <<>>

\* a component that takes no part in the specification at hand
Idle == [pc |-> "idle"]

IsNum(x) == x # <<>>


(***************************************************************************)
(* Section 5.3: prepare_exposure_tables.                                   *)
(* A raw row is [Country, Units, Strength] of texts; a derived row adds    *)
(* Sales and PTY and holds optional numbers in the numeric columns.        *)
(***************************************************************************)
DaysPerYear == 365

\* "Strength in mg": strip the unit suffix, parse, unparseable -> NaN
StrengthInMg(cell) == ToNumeric(Strip(RemoveMg(cell)))

\* unit column: drop thousands separators, keep the text after the last
\* colon, parse, unparseable -> NaN
UnitCount(cell) == ToNumeric(Strip(AfterLast(RemoveChar(cell, ","), ":")))

\* float(ddd_value) unless it is None, "" or NaN
NormalizedDDD(ddd_value) == ddd_value

\* truth value of normalized_ddd: None and 0.0 are false
DDDUsable(normalized_ddd) == IsNum(normalized_ddd) /\ normalized_ddd[1] # 0

\* Units x Strength; NaN when either operand is NaN
SalesFigure(units, strength) ==
    IF IsNum(units) /\ IsNum(strength) THEN <<units[1] * strength[1]>> ELSE Missing

\* a rounding that truncates instead
RoundHalfEven_Truncating(num, den) == num \div den

\* Series.round(0) on num/den >= 0: nearest integer, ties to the even one
RoundHalfEven(num, den) ==
    LET q == num \div den
        r == num % den
    IN  IF 2 * r < den THEN q
        ELSE IF 2 * r > den THEN q + 1
        ELSE IF q % 2 = 0 THEN q ELSE q + 1

\* Sales / (DDD x 365), rounded; NaN without a usable DDD or without sales
PatientsExposure(sales, normalized_ddd) ==
    IF DDDUsable(normalized_ddd) /\ IsNum(sales)
    THEN <<RoundHalfEven(sales[1], normalized_ddd[1] * DaysPerYear)>>
    ELSE Missing

\* DataFrame.drop_duplicates: keep the first occurrence of each row
RECURSIVE DropDuplicates(_)
DropDuplicates(rows) ==
    IF rows = <<>> THEN <<>>
    ELSE LET init == DropDuplicates(SubSeq(rows, 1, Len(rows) - 1))
             last == rows[Len(rows)]
         IN  IF \E i \in DOMAIN init : init[i] = last THEN init
             ELSE Append(init, last)

\* a cell that holds no value (NaN / None) in a column of texts
NaNCell == <<"NaN">>

\* astype(str) of a cell: the text of NaN is "nan"
AsStr(cell) == IF cell = NaNCell THEN <<"n", "a", "n">> ELSE cell

\* str.split(c, n=1).str[-1] : one split at the first c, then the last piece,
\* which is the text after the first c (all of s without a c)
AfterFirst(s, c) ==
    IF Positions(s, c) = {} THEN s
    ELSE SubSeq(s, Min(Positions(s, c)) + 1, Len(s))

\* the first position >= i of s that holds no digit (Len(s) + 1 at the end)
RECURSIVE SkipDigits(_, _)
SkipDigits(s, i) == IF i <= Len(s) /\ IsDigit(s[i]) THEN SkipDigits(s, i + 1) ELSE i

\* the first position >= i of s that holds no white space
RECURSIVE SkipSpaces(_, _)
SkipSpaces(s, i) == IF i <= Len(s) /\ s[i] = " " THEN SkipSpaces(s, i + 1) ELSE i

\* (\d+)\s*[xX]\s*(\d+) matched at position i: both runs of digits are
\* greedy, so the first group is the whole run that starts at i
PairMatchesAt(s, i) ==
    /\ IsDigit(s[i])
    /\ LET x == SkipSpaces(s, SkipDigits(s, i))
       IN  /\ x <= Len(s) /\ s[x] \in {"x", "X"}
           /\ SkipSpaces(s, x + 1) <= Len(s)
           /\ IsDigit(s[SkipSpaces(s, x + 1)])

\* the two groups of the match at i, as numbers
PairAt(s, i) ==
    LET e == SkipDigits(s, i)
        b == SkipSpaces(s, SkipSpaces(s, e) + 1)
    IN  <<DigitsValue(SubSeq(s, i, e - 1), 0),
          DigitsValue(SubSeq(s, b, SkipDigits(s, b) - 1), 0)>>

\* str.extract(r"(\d+)\s*[xX]\s*(\d+)") : the groups of the leftmost match,
\* <<>> (two NaN) without a match
ExtractPair(s) ==
    LET hits == {i \in DOMAIN s : PairMatchesAt(s, i)}
    IN  IF hits = {} THEN <<>> ELSE PairAt(s, Min(hits))

\* fillna(1) of the two groups, multiplied
PairProduct(pair) == IF pair = <<>> THEN 1 ELSE pair[1] * pair[2]

\* the "Pack size" column of one row, lines 120-126
PackSize(cell) == PairProduct(ExtractPair(Strip(AfterFirst(AsStr(cell), ":"))))

UnknownText == <<"U", "n", "k", "n", "o", "w", "n">>

\* the Country column of one row, lines 154-157: "Unknown" in a frame without
\* the column; in a frame with it a cell without a value is left to
\* fillna(""), which makes it blank
CountryColumn(raw) ==
    IF "Country" \notin DOMAIN raw THEN UnknownText
    ELSE IF raw.Country = NaNCell THEN <<>>
    ELSE raw.Country

\* the column derivation of one row, lines 108-157
DeriveRow(raw, normalized_ddd) ==
    LET units    == UnitCount(raw.Units)
        strength == StrengthInMg(raw.Strength)
        sales    == SalesFigure(units, strength)
    IN  IF "PackSize" \in DOMAIN raw
        THEN [Country  |-> CountryColumn(raw),
              PackSize |-> <<PackSize(raw.PackSize)>>,
              Units    |-> units,
              Strength |-> strength,
              Sales    |-> sales,
              PTY      |-> PatientsExposure(sales, normalized_ddd)]
        ELSE [Country  |-> CountryColumn(raw),
              Units    |-> units,
              Strength |-> strength,
              Sales    |-> sales,
              PTY      |-> PatientsExposure(sales, normalized_ddd)]

\* str.strip().casefold() of a Country cell or of a country name
NormCountry(s) == Casefold(Strip(s))

EuUk == <<"e", "u", "&", "u", "k">>

eu_uk_countries == {<<"u", "k">>, <<"s", "e">>, <<"d", "k">>}

\* {strip+casefold of every non-empty alias and of the country name}
TargetCountries(country_name, country_aliases) ==
    {NormCountry(v) : v \in {a \in country_aliases \cup {country_name} : a # <<>>}}

\* a mask whose "eu&uk" branch also accepts the declared aliases
CountryMask_WithAliases(row, country_name, country_aliases) ==
    \/ NormCountry(row.Country) \in TargetCountries(country_name, country_aliases)
    \/ NormCountry(country_name) = EuUk /\ NormCountry(row.Country) \in eu_uk_countries

\* country_mask of one row
CountryMask(row, country_name, country_aliases) ==
    IF NormCountry(country_name) = EuUk
    THEN NormCountry(row.Country) \in eu_uk_countries
    ELSE NormCountry(row.Country) \in TargetCountries(country_name, country_aliases)

RECURSIVE SumPTY(_)
SumPTY(rows) ==
    IF rows = <<>> THEN 0
    ELSE (IF IsNum(Head(rows).PTY) THEN Head(rows).PTY[1] ELSE 0) + SumPTY(Tail(rows))

TotalText == <<"T", "o", "t", "a", "l">>

\* Series.sum(numeric_only=True) is refused by pandas on a column that is not
\* of numeric dtype, and fillna("") turns the exposure column of the whole
\* frame into an object column as soon as one exposure is NaN.
SumRefused(frame_rows) == \E i \in DOMAIN frame_rows : ~IsNum(frame_rows[i].PTY)

\* the frame has a "Pack size" column
HasPackSize(dataframe) == dataframe # <<>> /\ "PackSize" \in DOMAIN dataframe[1]

\* _create_clean_total_row: every column blank, Country "Total", the sum
CreateCleanTotalRow(rows, has_pack_size) ==
    IF has_pack_size
    THEN [Country  |-> TotalText,
          PackSize |-> Missing,
          Units    |-> Missing,
          Strength |-> Missing,
          Sales    |-> Missing,
          PTY      |-> <<SumPTY(rows)>>]
    ELSE [Country  |-> TotalText,
          Units    |-> Missing,
          Strength |-> Missing,
          Sales    |-> Missing,
          PTY      |-> <<SumPTY(rows)>>]

PrepareExposureTables(dataframe, ddd_value, country_name, country_aliases) ==
    LET normalized_ddd == NormalizedDDD(ddd_value)
        deduped        == DropDuplicates(dataframe)
        rows           == [i \in DOMAIN deduped |-> DeriveRow(deduped[i], normalized_ddd)]
        mask(r)        == CountryMask(r, country_name, country_aliases)
        df_country     == SelectSeq(rows, mask)
        df_non_country == SelectSeq(rows, LAMBDA r : ~mask(r))
        country_total_row     == CreateCleanTotalRow(df_country, HasPackSize(dataframe))
        non_country_total_row == CreateCleanTotalRow(df_non_country, HasPackSize(dataframe))
    IN  IF SumRefused(rows)
        THEN [status           |-> "TypeError",
              rows             |-> rows,
              country_rows     |-> df_country,
              non_country_rows |-> df_non_country]
        ELSE [status            |-> "returned",
              rows              |-> rows,
              country_rows      |-> df_country,
              non_country_rows  |-> df_non_country,
              country_table     |-> Append(df_country, country_total_row),
              non_country_table |-> Append(df_non_country, non_country_total_row),
              country_total     |-> country_total_row.PTY[1],
              non_country_total |-> non_country_total_row.PTY[1],
              combined_total    |-> country_total_row.PTY[1] + non_country_total_row.PTY[1],
              ddd_value         |-> normalized_ddd]

(***************************************************************************)
(* Inputs of prepare_exposure_tables.                                      *)
(***************************************************************************)
CountryCells == {<<"U", "K">>, <<" ", "s", "e">>, <<"D", "k", " ">>, <<"F", "R">>}

UnitCells == {<<"1", ",", "0", "9", "5">>,
              <<"Q", "t", "y", ":", " ", "3", "6", "5">>,
              <<"n", "/", "a">>}

StrengthCells == {<<"1", " ", "m", "g">>, <<"3", "m", "g">>, <<"?">>}

DDDValues == {Missing, <<0>>, <<2>>, <<4>>}

CountryNames == {EuUk, <<" ", "E", "U", "&", "U", "K", " ">>, <<"F", "R">>, <<>>}

AliasSets == {{}, {<<"f", "r">>}, {<<"F", "R", " ">>, <<"s", "e">>}}

\* rows with every cell drawn freely, over two countries
FreeRows == [Country : {<<"U", "K">>, <<"F", "R">>}, Units : UnitCells, Strength : StrengthCells]

\* rows with parseable numbers, over every country cell
CountryRows == [Country : CountryCells, Units : {<<"1", ",", "0", "9", "5">>},
                Strength : {<<"1", " ", "m", "g">>}]

\* "Pack size" cells: a bare pair, a plain label, labels with a colon, labels
\* with a pair, no pair, no value
PackSizeCells == {<<"2", "x", "3">>, <<"P", "a", "c", "k", ":", " ", "2", " ", "X", " ", "1", "0">>, <<"a", ":", " ", "b", ":", " ", "3", "x", "4">>, <<"1", "x", "2", " ", "t", "a", "b", "s", ":", " ", "3", "x", "4">>, <<"a", ":", " ", "1", "x", "2", ":", " ", "3", "x", "4">>, <<"a", ":", " ", "2", "x", "3", ":", " ", "n", "o", "n", "e">>, <<"P", "a", "c", "k", ":", " ", "1", "2", " ", "x">>, NaNCell}

\* rows of a frame with a "Pack size" column
PackRows == [Country : {<<"F", "R">>}, PackSize : PackSizeCells,
             Units : {<<"1", ",", "0", "9", "5">>}, Strength : {<<"1", " ", "m", "g">>}]

\* rows of a frame whose Country cells may hold no value, or be blank
OptionalCountryRows == [Country : {NaNCell, <<>>, <<"U", "K">>},
                        Units : {<<"1", ",", "0", "9", "5">>},
                        Strength : {<<"1", " ", "m", "g">>, <<"3", "m", "g">>}]

\* rows of a frame without a Country column
NoCountryRows == [Units : {<<"1", ",", "0", "9", "5">>, <<"n", "/", "a">>},
                  Strength : {<<"1", " ", "m", "g">>, <<"3", "m", "g">>}]

SeqsUpTo(S, n) == UNION {[1..k -> S] : k \in 0..n}

ExposureCall(f, d, c, a) ==
    [pc |-> "call", dataframe |-> f, ddd_value |-> d, country_name |-> c,
     country_aliases |-> a]

\* either the cells vary (every DDD, a plain country name), or the countries,
\* the country name and the aliases vary (a usable or a zero DDD), or the
\* frame has a "Pack size" column, or its Country cells or its Country column
\* are missing
ExposureInputs ==
    \/ \E f \in SeqsUpTo(FreeRows, MaxRows), d \in DDDValues, c \in {EuUk, <<"F", "R">>} :
          exposure = ExposureCall(f, d, c, {})
    \/ \E f \in SeqsUpTo(CountryRows, MaxCountryRows), d \in {<<0>>, <<4>>},
          c \in CountryNames, a \in AliasSets :
          exposure = ExposureCall(f, d, c, a)
    \/ \E f \in SeqsUpTo(PackRows, MaxRows), c \in {EuUk, <<"F", "R">>} :
          exposure = ExposureCall(f, <<4>>, c, {})
    \/ \E f \in SeqsUpTo(OptionalCountryRows, MaxRows) \cup SeqsUpTo(NoCountryRows, MaxRows),
          d \in {<<0>>, <<4>>}, c \in {<<"U", "K">>, UnknownText, <<>>} :
          exposure = ExposureCall(f, d, c, {})

\* one call of prepare_exposure_tables, start to return or raise
PrepareExposureTablesCall ==
    /\ exposure.pc = "call"
    /\ UNCHANGED <<locator, textx, soc, run>>
    /\ exposure' = [pc |-> "done",
                    dataframe |-> exposure.dataframe,
                    ddd_value |-> exposure.ddd_value,
                    country_name |-> exposure.country_name,
                    country_aliases |-> exposure.country_aliases,
                    out |-> PrepareExposureTables(exposure.dataframe, exposure.ddd_value,
                                exposure.country_name, exposure.country_aliases)]

ExposureInit ==
    /\ ExposureInputs
    /\ locator = Idle /\ textx = Idle /\ soc = Idle /\ run = Idle

ExposureNext == PrepareExposureTablesCall

SpecExposure == ExposureInit /\ [][ExposureNext]_vars


(***************************************************************************)
(* Properties of prepare_exposure_tables.                                  *)
(***************************************************************************)
ExposureDone == exposure.pc = "done"

Abs(x) == IF x < 0 THEN 0 - x ELSE x

\* C1: every row whose unit count and strength parse has, under a DDD that is
\* present and nonzero, an exposure that is an integer nearest to
\* Units x Strength / (DDD x 365); under a missing or zero DDD the exposure
\* of every row is blank.
C1_ExposureIsRoundedQuotient ==
    ExposureDone =>
        LET ddd  == exposure.ddd_value
            rows == exposure.out.rows
        IN  \A i \in DOMAIN rows :
              /\ (ddd # <<>> /\ ddd[1] # 0 /\ rows[i].Units # <<>> /\ rows[i].Strength # <<>>)
                    => /\ rows[i].PTY # <<>>
                       /\ 2 * Abs(rows[i].PTY[1] * ddd[1] * 365
                                  - rows[i].Units[1] * rows[i].Strength[1]) <= ddd[1] * 365
              /\ (ddd = <<>> \/ ddd = <<0>>) => rows[i].PTY = <<>>

\* a row of 1095 units of 1 mg under DDD 4: 1095 / 1460 = 0.75, exposure 1
C1_Witness ==
    /\ ExposureDone
    /\ exposure.ddd_value = <<4>>
    /\ \E i \in DOMAIN exposure.out.rows :
          /\ exposure.out.rows[i].Units = <<1095>>
          /\ exposure.out.rows[i].Strength = <<1>>
          /\ exposure.out.rows[i].PTY = <<1>>

\* C2: every call ends with a result in which country_total and
\* non_country_total are the sums of the exposure column over the two
\* partitions, are the values of the two "Total" rows, and add up to
\* combined_total.
C2_TotalsAddUp ==
    ExposureDone =>
        LET out == exposure.out
        IN  /\ out.status = "returned"
            /\ out.country_total = SumPTY(out.country_rows)
            /\ out.non_country_total = SumPTY(out.non_country_rows)
            /\ out.country_table[Len(out.country_table)].PTY = <<out.country_total>>
            /\ out.non_country_table[Len(out.non_country_table)].PTY = <<out.non_country_total>>
            /\ out.country_total + out.non_country_total = out.combined_total

\* C3: under a country name that normalizes to "eu&uk" a row is in the target
\* partition iff its Country normalizes to uk, se or dk, and in the other
\* partition otherwise, whatever the aliases.
C3_EuUkPartition ==
    (ExposureDone /\ Casefold(Strip(exposure.country_name)) = <<"e", "u", "&", "u", "k">>) =>
        LET out     == exposure.out
            InEu(r) == Casefold(Strip(r.Country)) \in {<<"u", "k">>, <<"s", "e">>, <<"d", "k">>}
            In(r, t) == \E j \in DOMAIN t : t[j] = r
        IN  /\ \A i \in DOMAIN out.rows :
                  /\ In(out.rows[i], out.country_rows) <=> InEu(out.rows[i])
                  /\ In(out.rows[i], out.non_country_rows) <=> ~InEu(out.rows[i])
            /\ out.status = "returned" =>
                  /\ SubSeq(out.country_table, 1, Len(out.country_table) - 1) = out.country_rows
                  /\ SubSeq(out.non_country_table, 1, Len(out.non_country_table) - 1)
                        = out.non_country_rows

\* UK, SE, DK and FR rows under " EU&UK " with an alias for FR: three target
\* rows, FR alone in the rest
C3_Witness ==
    /\ ExposureDone
    /\ exposure.country_name = <<" ", "E", "U", "&", "U", "K", " ">>
    /\ <<"f", "r">> \in exposure.country_aliases
    /\ exposure.out.status = "returned"
    /\ Len(exposure.out.country_rows) = 3
    /\ Len(exposure.out.non_country_rows) = 1
    /\ exposure.out.non_country_rows[1].Country = <<"F", "R">>

\* C18: the Pack size of every row is the product of the first integer pair
\* in the text after the last colon of its cell, and 1 when that text holds
\* no pair.
C18_PackSizeAfterLastColon ==
    (ExposureDone /\ HasPackSize(exposure.dataframe)) =>
        LET raw == DropDuplicates(exposure.dataframe)
        IN  \A i \in DOMAIN raw :
              exposure.out.rows[i].PackSize
                 = <<PairProduct(ExtractPair(AfterLast(AsStr(raw[i].PackSize), ":")))>>

\* C19: every row whose Country had no value in the input, in a frame
\* without the column or in a cell of the column, has Country "Unknown"
\* after the call.
C19_MissingCountryIsUnknown ==
    (ExposureDone /\ exposure.out.status = "returned") =>
        LET raw == DropDuplicates(exposure.dataframe)
        IN  \A i \in DOMAIN raw :
              ("Country" \notin DOMAIN raw[i] \/ raw[i].Country = NaNCell)
                 => exposure.out.rows[i].Country = UnknownText

(***************************************************************************)
(* Table Locator: section5_2.extract_specific_table and                    *)
(* section5_3.extract_table_after_text.                                    *)
(* A document body is a sequence of blocks: [kind |-> "p", text] and       *)
(* [kind |-> "tbl", rows]; rows are sequences of cell texts.               *)
(***************************************************************************)
\* rows of the table whose rows are drawn freely
MaxTableRows == 3
\* blocks of a body whose blocks are drawn freely
MaxBlocks == 3

\* s[i..] starts with k
StartsWithAt(s, i, k) ==
    /\ i + Len(k) - 1 <= Len(s)
    /\ \A j \in DOMAIN k : s[i + j - 1] = k[j]

\* k in s
Contains(s, k) == \E i \in 1..(Len(s) - Len(k) + 1) : StartsWithAt(s, i, k)

\* re.compile(re.escape(k), re.IGNORECASE).search(s)
SearchIgnoreCase(s, k) ==
    \E i \in 1..(Len(s) - Len(k) + 1) :
        \A j \in DOMAIN k : FoldChar(s[i + j - 1]) = FoldChar(k[j])

\* doc.paragraphs / doc.tables: the blocks of one kind, in body order
Paragraphs(body) == SelectSeq(body, LAMBDA b : b.kind = "p")

Tables(body) == SelectSeq(body, LAMBDA b : b.kind = "tbl")

\* [[cell.text.strip() for cell in row.cells] for row in table.rows]
TableData(table) ==
    [i \in DOMAIN table.rows |-> [j \in DOMAIN table.rows[i] |-> Strip(table.rows[i][j])]]

\* an extraction that keeps a duplicated header row
PopDuplicateHeader_Keep(table_data) == table_data

\* if len(t) > 1 and t[0] == t[1]: t.pop(1)
PopDuplicateHeader(table_data) ==
    IF Len(table_data) > 1 /\ table_data[1] = table_data[2]
    THEN <<table_data[1]>> \o SubSeq(table_data, 3, Len(table_data))
    ELSE table_data

keywords ==
  <<<<"M", "o", "l", "e", "c", "u", "l", "a", "r", " ", "P", "r", "o", "d", "u", "c", "t">>,
    <<"S", "t", "u", "d", "y", " ", "N", "u", "m", "b", "e", "r">>,
    <<"T", "e", "s", "t", " ", "P", "r", "o", "d", "u", "c", "t", " ", "N", "a", "m", "e">>,
    <<"A", "c", "t", "i", "v", "e", " ", "c", "o", "m", "p", "a", "r", "a", "t", "o", "r", " ", "n", "a", "m", "e">>,
    <<"T", "e", "s", "t", "P", "r", "o", "d", "u", "c", "t">>,
    <<"A", "c", "t", "i", "v", "e", " ", "C", "o", "m", "p", "a", "r", "a", "t", "o", "r">>,
    <<"P", "l", "a", "c", "e", "b", "o">>,
    <<"T", "o", "t", "a", "l">>,
    <<"G", "e", "n", "d", "e", "r">>,
    <<"A", "g", "e">>,
    <<"R", "a", "c", "i", "a", "l">>>>

\* ' '.join(cell.text.strip() for cell in row.cells)
RECURSIVE JoinCells(_)
JoinCells(cells) ==
    IF cells = <<>> THEN <<>>
    ELSE IF Len(cells) = 1 THEN Strip(cells[1])
    ELSE Strip(cells[1]) \o <<" ">> \o JoinCells(Tail(cells))

\* some keyword occurs in one of the first 3 rows of the table
KeywordTable(table) ==
    \E i \in DOMAIN table.rows :
        /\ i <= 3
        /\ \E k \in DOMAIN keywords : SearchIgnoreCase(JoinCells(table.rows[i]), keywords[k])

NotFound == [found |-> FALSE]

\* extract_specific_table: [] for a missing file or when no table matches,
\* else the first keyword table, its duplicated header row dropped
ExtractSpecificTable(exists, body) ==
    LET tables == Tables(body)
        hits   == {t \in DOMAIN tables : KeywordTable(tables[t])}
    IN  IF ~exists \/ hits = {} THEN [found |-> FALSE, data |-> <<>>]
        ELSE [found |-> TRUE, table |-> Min(hits),
              data |-> PopDuplicateHeader(TableData(tables[Min(hits)]))]

search_text == <<"C", "u", "m", "u", "l", "a", "t", "i", "v", "e", " ", "s", "a", "l", "e", "s", " ", "d", "a", "t", "a", " ", "s", "a", "l", "e", " ", "r", "e", "q", "u", "i", "r", "e", "d">>

\* index (from 0) of the first paragraph that holds the marker, or none
FoundIndex(body) ==
    LET paras == Paragraphs(body)
        hits  == {i \in DOMAIN paras : SearchIgnoreCase(paras[i].text, search_text)}
    IN  IF hits = {} THEN <<>> ELSE <<Min(hits) - 1>>

\* a loop that takes a table as soon as para_counter reaches found_index
RECURSIVE ScanBody_AtMarker(_, _, _, _)
ScanBody_AtMarker(blocks, found_index, para_counter, table_counter) ==
    IF blocks = <<>> THEN <<>>
    ELSE IF Head(blocks).kind = "p"
         THEN ScanBody_AtMarker(Tail(blocks), found_index, para_counter + 1, table_counter)
    ELSE IF para_counter >= found_index THEN <<table_counter>>
    ELSE ScanBody_AtMarker(Tail(blocks), found_index, para_counter, table_counter + 1)

\* the loop over doc.element.body: the number (from 0) of the first table met
\* once para_counter exceeds found_index, or none when the loop runs out
RECURSIVE ScanBody(_, _, _, _)
ScanBody(blocks, found_index, para_counter, table_counter) ==
    IF blocks = <<>> THEN <<>>
    ELSE IF Head(blocks).kind = "p"
         THEN ScanBody(Tail(blocks), found_index, para_counter + 1, table_counter)
    ELSE IF para_counter > found_index THEN <<table_counter>>
    ELSE ScanBody(Tail(blocks), found_index, para_counter, table_counter + 1)

\* extract_table_after_text: None without marker or following table
ExtractTableAfterText(body) ==
    LET found_index == FoundIndex(body)
        hit == IF found_index = <<>> THEN <<>> ELSE ScanBody(body, found_index[1], 0, 0)
    IN  IF hit = <<>> THEN NotFound
        ELSE [found |-> TRUE, table |-> hit[1] + 1,
              data |-> PopDuplicateHeader(TableData(Tables(body)[hit[1] + 1]))]

(***************************************************************************)
(* Inputs of the Table Locator.                                            *)
(***************************************************************************)
RowAge == <<<<"A", "g", "e">>, <<"n">>>>

RowAgePadded == <<<<" ", "A", "g", "e">>, <<"n", " ">>>>

RowData == <<<<"x">>, <<"1">>>>

TableRows == {RowAge, RowAgePadded, RowData}

MarkerParagraph == [kind |-> "p", text |-> <<"1", ".", " ", "c", "u", "m", "u", "l", "a", "t", "i", "v", "e", " ", "S", "a", "l", "e", "s", " ", "d", "a", "t", "a", " ", "s", "a", "l", "e", " ", "r", "e", "q", "u", "i", "r", "e", "d", ":">>]

PlainParagraph == [kind |-> "p", text |-> <<"S", "a", "l", "e", "s", " ", "d", "a", "t", "a">>]

Tbl(rows) == [kind |-> "tbl", rows |-> rows]

FreeTables == {Tbl(r) : r \in UNION {[1..k -> TableRows] : k \in 1..MaxTableRows}}

FixedBlocks == {MarkerParagraph, PlainParagraph, Tbl(<<RowAge, RowAge, RowData>>),
                Tbl(<<RowData, RowData>>)}

\* either one free table after the marker, or free blocks of fixed tables
Bodies ==
    {<<MarkerParagraph, t>> : t \in FreeTables} \cup SeqsUpTo(FixedBlocks, MaxBlocks)

LocatorInputs ==
    \E b \in Bodies, e \in BOOLEAN : locator = [pc |-> "call", exists |-> e, body |-> b]

\* one call of extract_specific_table(docx_path)
ExtractSpecificTableCall ==
    /\ locator.pc = "call"
    /\ locator' = [pc |-> "done", fn |-> "extract_specific_table",
                   exists |-> locator.exists, body |-> locator.body,
                   out |-> ExtractSpecificTable(locator.exists, locator.body)]
    /\ UNCHANGED <<exposure, textx, soc, run>>

\* one call of extract_table_after_text(doc) on a document that opened
ExtractTableAfterTextCall ==
    /\ locator.pc = "call"
    /\ locator.exists
    /\ locator' = [pc |-> "done", fn |-> "extract_table_after_text",
                   exists |-> locator.exists, body |-> locator.body,
                   out |-> ExtractTableAfterText(locator.body)]
    /\ UNCHANGED <<exposure, textx, soc, run>>

LocatorInit ==
    /\ LocatorInputs
    /\ exposure = Idle /\ textx = Idle /\ soc = Idle /\ run = Idle

LocatorNext == ExtractSpecificTableCall \/ ExtractTableAfterTextCall

SpecLocator == LocatorInit /\ [][LocatorNext]_vars

\* C8: a located table comes back without its second row when its first two
\* rows are identical (one row less, the others in order), and whole when
\* they differ or when it has a single row.
C8_DuplicateHeaderDropped ==
    (locator.pc = "done" /\ locator.out.found) =>
        LET src == Tables(locator.body)[locator.out.table].rows
            txt == [i \in DOMAIN src |-> [j \in DOMAIN src[i] |-> Strip(src[i][j])]]
            out == locator.out.data
        IN  IF Len(txt) >= 2 /\ txt[1] = txt[2]
            THEN /\ Len(out) = Len(txt) - 1
                 /\ out[1] = txt[1]
                 /\ \A i \in 2..Len(out) : out[i] = txt[i + 1]
            ELSE out = txt

\* a three-row table whose first two rows are identical, returned with two
C8_Witness ==
    /\ locator.pc = "done"
    /\ locator.out.found
    /\ locator.fn = "extract_table_after_text"
    /\ Len(Tables(locator.body)[locator.out.table].rows) = 3
    /\ Len(locator.out.data) = 2
    /\ locator.out.data[2] = RowData

(***************************************************************************)
(* Multi-format Text Extractor: section6_3.extract_text_from_document.     *)
(* A file is [exists, path, lines]: lines is the plain text that the RTF   *)
(* conversion, or the joining of the paragraphs, yields for its content.   *)
(***************************************************************************)
\* os.path.splitext(path)[1]: from the last dot of the last path component,
\* unless only dots precede it in that component
Splitext(path) ==
    LET seps    == Positions(path, "/")
        sep     == IF seps = {} THEN 0 ELSE Max(seps)
        dots    == {i \in Positions(path, ".") : i > sep}
        dot     == IF dots = {} THEN 0 ELSE Max(dots)
    IN  IF dot # 0 /\ \E i \in (sep + 1)..(dot - 1) : path[i] # "."
        THEN SubSeq(path, dot, Len(path))
        ELSE <<>>

\* an extension test that forgets .lower()
FileExtension_CaseSensitive(path) == Splitext(path)

\* ext = os.path.splitext(file_path)[1].lower()
FileExtension(path) == Casefold(Splitext(path))

ExtRtf == <<".", "r", "t", "f">>

ExtDocx == <<".", "d", "o", "c", "x">>

\* extract_text_from_document: the text, or the error it raises
ExtractTextFromDocument(file) ==
    IF ~file.exists THEN [kind |-> "FileNotFoundError"]
    ELSE IF FileExtension(file.path) = ExtRtf THEN [kind |-> "text", lines |-> file.lines]
    ELSE IF FileExtension(file.path) = ExtDocx THEN [kind |-> "text", lines |-> file.lines]
    ELSE [kind |-> "ValueError"]

(***************************************************************************)
(* Inputs of the Text Extractor.                                           *)
(***************************************************************************)
PathDirs == {<<>>, <<"d", ".", "x", "/">>}

PathStems == {<<>>, <<"a">>, <<".">>, <<"a", ".", "b">>}

PathExts == {<<>>, <<".", "r", "t", "f">>, <<".", "R", "T", "F">>, <<".", "d", "o", "c", "x">>, <<".", "D", "o", "c", "x">>, <<".", "t", "x", "t">>, <<".", "d", "o", "c">>, <<".", "r", "t", "f", "x">>}

Paths == {d \o s \o e : d \in PathDirs, s \in PathStems, e \in PathExts}

SomeLines == <<<<"o", "n", "e">>, <<"t", "w", "o">>>>

TextInputs ==
    \E p \in Paths, e \in BOOLEAN :
        textx = [pc |-> "call", file |-> [exists |-> e, path |-> p, lines |-> SomeLines]]

\* one call of extract_text_from_document(file_path)
ExtractTextFromDocumentCall ==
    /\ textx.pc = "call"
    /\ textx' = [pc |-> "done", file |-> textx.file,
                 out |-> ExtractTextFromDocument(textx.file)]
    /\ UNCHANGED <<exposure, locator, soc, run>>

TextInit ==
    /\ TextInputs
    /\ exposure = Idle /\ locator = Idle /\ soc = Idle /\ run = Idle

TextNext == ExtractTextFromDocumentCall

SpecText == TextInit /\ [][TextNext]_vars

\* the path ends with ext, compared without case, after a name that is not
\* made of dots only
HasExtension(path, ext) ==
    LET n == Len(path) - Len(ext)
    IN  /\ n >= 1
        /\ \A j \in DOMAIN ext : FoldChar(path[n + j]) = ext[j]
        /\ \E i \in 1..n : /\ path[i] \notin {".", "/"}
                           /\ \A k \in i..n : path[k] # "/"

\* C10: a path that does not exist fails with file-not-found whatever its
\* extension; an existing path whose extension is neither .rtf nor .docx
\* (without case) fails with unsupported-format; an existing .rtf or .docx
\* path yields the text; there is no other outcome.
C10_TextExtractorOutcomes ==
    textx.pc = "done" =>
        LET f == textx.file
            supported == HasExtension(f.path, <<".", "r", "t", "f">>)
                         \/ HasExtension(f.path, <<".", "d", "o", "c", "x">>)
        IN  /\ ~f.exists => textx.out.kind = "FileNotFoundError"
            /\ (f.exists /\ ~supported) => textx.out.kind = "ValueError"
            /\ (f.exists /\ supported) => textx.out = [kind |-> "text", lines |-> f.lines]
            /\ textx.out.kind \in {"FileNotFoundError", "ValueError", "text"}

\* an existing "a.RTF" is read
C10_Witness ==
    /\ textx.pc = "done"
    /\ textx.file.exists
    /\ textx.file.path = <<"a", ".", "R", "T", "F">>
    /\ textx.out.kind = "text"

(***************************************************************************)
(* SOC Narrative Summarizer: section6_3.extract_table_with_multilevel_     *)
(* header and _rtf_soc_summary.                                            *)
(***************************************************************************)
start_marker == <<"F", "o", "r", " ", "t", "h", "e", " ", "c", "a", "s", "e", "s", " ", "i", "n", " ", "t", "h", "i", "s", " ", "r", "e", "p", "o", "r", "t">>

end_marker ==
    <<"M", "a", "i", "n", " ", "S", "u", "m", "m", "a", "r", "y", " ", "T", "a", "b", "u", "l", "a", "t", "i", "o", "n", ":", " ", "b", "y", " ">>
    \o <<"S", "y", "s", "t", "e", "m", " ", "O", "r", "g", "a", "n", " ", "C", "l", "a", "s", "s", " ", "(", "S", "O", "C", ")">>

SocText == <<"S", "y", "s", "t", "e", "m", " ", "O", "r", "g", "a", "n", " ", "C", "l", "a", "s", "s">>

PtText == <<"P", "r", "e", "f", "e", "r", "r", "e", "d", " ", "T", "e", "r", "m">>

NoText == <<"N", "o">>

YesText == <<"Y", "e", "s">>

SubTotalText == <<"S", "u", "b", "T", "o", "t", "a", "l">>

\* str.split(c)
RECURSIVE SplitOn(_, _)
SplitOn(s, c) ==
    IF Positions(s, c) = {} THEN <<s>>
    ELSE LET p == Min(Positions(s, c))
         IN  <<SubSeq(s, 1, p - 1)>> \o SplitOn(SubSeq(s, p + 1, Len(s)), c)

\* re.split(r'\s*\|\s*', line), every part stripped as it is where used
SplitPipes(line) ==
    LET parts == SplitOn(line, "|") IN [i \in DOMAIN parts |-> Strip(parts[i])]

\* [p.strip() for p in re.split(...) if p.strip()]
NonBlankParts(line) == SelectSeq(SplitPipes(line), LAMBDA p : p # <<>>)

\* str.isdigit
IsDigits(s) == s # <<>> /\ \A i \in DOMAIN s : IsDigit(s[i])

\* the last line that is not blank, '' when there is none
LastNonBlank(lines) ==
    LET idx == {i \in DOMAIN lines : Strip(lines[i]) # <<>>}
    IN  IF idx = {} THEN <<>> ELSE lines[Max(idx)]

\* the purely numeric pipe-separated tokens of the last non-blank line
CountParts(lines) == SelectSeq(SplitPipes(LastNonBlank(lines)), IsDigits)

Labeled(lines) ==
    IF Len(CountParts(lines)) > 0 THEN DigitsValue(CountParts(lines)[1], 0) ELSE 0

Unlabeled(lines) ==
    IF Len(CountParts(lines)) > 1 THEN DigitsValue(CountParts(lines)[2], 0) ELSE 0

\* the loop of lines 48-54 from line i on: start_idx is set by every start
\* line met, end_idx by the first end line met once start_idx is set
RECURSIVE ScanMarkers(_, _, _)
ScanMarkers(lines, i, start_idx) ==
    IF i > Len(lines) THEN [start_idx |-> start_idx, end_idx |-> <<>>]
    ELSE IF SearchIgnoreCase(lines[i], start_marker)
         THEN ScanMarkers(lines, i + 1, <<i>>)
    ELSE IF SearchIgnoreCase(lines[i], end_marker) /\ start_idx # <<>>
         THEN [start_idx |-> start_idx, end_idx |-> <<i>>]
    ELSE ScanMarkers(lines, i + 1, start_idx)

\* [line.strip() for line in lines[start_idx:end_idx] if line.strip()]
TableLines(lines, start_idx, end_idx) ==
    SelectSeq([i \in 1..(end_idx - start_idx) |-> Strip(lines[start_idx + i - 1])],
              LAMBDA l : l # <<>>)

\* the loop of lines 63-69 from line i on
RECURSIVE ScanHeaders(_, _, _)
ScanHeaders(table_lines, i, header_row) ==
    IF i > Len(table_lines)
    THEN [header_row |-> header_row, subheader_row |-> <<>>, data_start |-> <<>>]
    ELSE IF Contains(table_lines[i], SocText) /\ Contains(table_lines[i], PtText)
         THEN ScanHeaders(table_lines, i + 1, <<SplitPipes(table_lines[i])>>)
    ELSE IF /\ Contains(table_lines[i], NoText)
            /\ Contains(table_lines[i], YesText)
            /\ Contains(table_lines[i], TotalText)
         THEN [header_row |-> header_row, subheader_row |-> <<SplitPipes(table_lines[i])>>,
               data_start |-> <<i + 1>>]
    ELSE ScanHeaders(table_lines, i + 1, header_row)

\* a parser that takes a 4-token line for the start of a SOC group
RECURSIVE ParseRows_NoCarry(_, _)
ParseRows_NoCarry(data_lines, current_soc) ==
    IF data_lines = <<>> THEN <<>>
    ELSE LET parts == NonBlankParts(Head(data_lines))
         IN  IF Len(parts) = 5
             THEN <<parts>> \o ParseRows_NoCarry(Tail(data_lines), parts[1])
             ELSE IF Len(parts) = 4
             THEN <<(<<parts[1]>> \o parts)>> \o ParseRows_NoCarry(Tail(data_lines), parts[1])
             ELSE ParseRows_NoCarry(Tail(data_lines), current_soc)

\* the loop of lines 85-91: 5 tokens start a SOC group, 4 tokens inherit the
\* current SOC, any other line is dropped
RECURSIVE ParseRows(_, _)
ParseRows(data_lines, current_soc) ==
    IF data_lines = <<>> THEN <<>>
    ELSE LET parts == NonBlankParts(Head(data_lines))
         IN  IF Len(parts) = 5
             THEN <<parts>> \o ParseRows(Tail(data_lines), parts[1])
             ELSE IF Len(parts) = 4
             THEN <<(<<current_soc>> \o parts)>> \o ParseRows(Tail(data_lines), current_soc)
             ELSE ParseRows(Tail(data_lines), current_soc)

\* lines 71-97: the frame made from the header lines and the data lines
TableFrom(table_lines, heads, empty) ==
    IF heads.header_row = <<>> \/ heads.subheader_row = <<>> THEN empty
    ELSE IF Len(heads.header_row[1]) < 3 \/ Len(heads.subheader_row[1]) < 4
         THEN [kind |-> "IndexError"]
    ELSE [empty EXCEPT !.rows = ParseRows(SubSeq(table_lines, heads.data_start[1],
                                                 Len(table_lines)), <<>>)]

\* lines 61-69: the header lines of the region
TableAmong(table_lines, empty) ==
    TableFrom(table_lines, ScanHeaders(table_lines, 1, <<>>), empty)

\* lines 56-59: the stripped non-blank lines between the markers
TableBetween(lines, markers, empty) ==
    IF markers.start_idx = <<>> \/ markers.end_idx = <<>> THEN empty
    ELSE TableAmong(TableLines(lines, markers.start_idx[1], markers.end_idx[1]), empty)

\* lines 41-54: the two counts of the last non-blank line and the markers
TableOfLines(lines) ==
    TableBetween(lines, ScanMarkers(lines, 1, <<>>),
                 [kind |-> "table", rows |-> <<>>, labeled |-> Labeled(lines),
                  unlabeled |-> Unlabeled(lines)])

\* line 40: an error of the text extractor leaves the function
TableOfText(text) ==
    IF text.kind # "text" THEN [kind |-> text.kind] ELSE TableOfLines(text.lines)

\* extract_table_with_multilevel_header: the parsed rows (none for an empty
\* frame) with the two counts, or the error that leaves the function
ExtractTableWithMultilevelHeader(file) == TableOfText(ExtractTextFromDocument(file))

\* pd.to_numeric(df2['Total'], errors='coerce').fillna(0).astype(int)
TotalOf(row) == IF IsDigits(row[5]) THEN DigitsValue(row[5], 0) ELSE 0

\* int(cell): a value, or none when int() raises ValueError
IntOf(cell) == ToNumeric(Strip(cell))

\* an ordering that keeps the smallest Total first
RECURSIVE TopOrders_Ascending(_, _, _)
TopOrders_Ascending(df, S, k) ==
    IF k = 0 \/ S = {} THEN {<<>>}
    ELSE LET m == Min({TotalOf(df[i]) : i \in S})
         IN  UNION {{<<i>> \o o : o \in TopOrders_Ascending(df, S \ {i}, k - 1)} :
                        i \in {j \in S : TotalOf(df[j]) = m}}

\* sort_values(by='Total', ascending=False).head(k) over the rows S of df: the
\* default sort kind is not a stable one, so rows of equal Total come in any
\* order; every order the sort may produce is a member.
RECURSIVE TopOrders(_, _, _)
TopOrders(df, S, k) ==
    IF k = 0 \/ S = {} THEN {<<>>}
    ELSE LET m == Max({TotalOf(df[i]) : i \in S})
         IN  UNION {{<<i>> \o o : o \in TopOrders(df, S \ {i}, k - 1)} :
                        i \in {j \in S : TotalOf(df[j]) = m}}

\* round((n / max(total_ADR, 1)) * 100)
Pct(n, total_ADR) == RoundHalfEven(n * 100, IF total_ADR > 1 THEN total_ADR ELSE 1)

\* the rows of one SOC that are not its SubTotal row
Choices(df, blanket) == {i \in DOMAIN df : df[i][1] = blanket /\ df[i][2] # SubTotalText}

\* one "... SOC x (n=.., i.e. ..% of total) including ..." paragraph
SocParagraph(df, b, top4, total_ADR) ==
    [row  |-> b,
     name |-> df[b][1],
     n    |-> TotalOf(df[b]),
     pct  |-> Pct(TotalOf(df[b]), total_ADR),
     subs |-> [j \in 1..4 |-> [row |-> top4[j], name |-> df[top4[j]][2],
                               n |-> TotalOf(df[top4[j]])]]]

\* the ranked narratives for one order of the leading SOC groups; IndexError
\* when a leading group has fewer than 4 rows to list
RankedNarratives(df, top3, counts) ==
    LET orders(b) == TopOrders(df, Choices(df, df[top3[b]][1]), 4)
    IN  IF \E b \in 1..3 : Cardinality(Choices(df, df[top3[b]][1])) < 4
        THEN {[kind |-> "IndexError"]}
        ELSE {[kind |-> "ranked", serious |-> counts.serious,
               non_serious |-> counts.non_serious, total |-> counts.total,
               labeled |-> counts.labeled, unlabeled |-> counts.unlabeled,
               socs |-> <<SocParagraph(df, top3[1], o1, counts.total),
                          SocParagraph(df, top3[2], o2, counts.total),
                          SocParagraph(df, top3[3], o3, counts.total)>>] :
                 o1 \in orders(1), o2 \in orders(2), o3 \in orders(3)}

\* lines 139-141 with the two counts of the text
Counts(last, ex) ==
    [non_serious |-> IntOf(last[3])[1], serious |-> IntOf(last[4])[1],
     total |-> TotalOf(last), labeled |-> ex.labeled, unlabeled |-> ex.unlabeled]

\* lines 142-191
SummaryOfCounts(df2, counts, subtotals) ==
    IF counts.total = 0
    THEN {[kind |-> "zero_total", serious |-> counts.serious,
           non_serious |-> counts.non_serious,
           labeled |-> counts.labeled, unlabeled |-> counts.unlabeled]}
    ELSE IF Cardinality(subtotals) < 3
    THEN {[kind |-> "insufficient", serious |-> counts.serious,
           non_serious |-> counts.non_serious]}
    ELSE UNION {RankedNarratives(df2, top3, counts) : top3 \in TopOrders(df2, subtotals, 3)}

\* lines 138-141: the last row's counts, ValueError when int() refuses one
SummaryOfFrame(df2, ex) ==
    IF df2 = <<>> THEN {[kind |-> "IndexError"]}
    ELSE IF IntOf(df2[Len(df2)][3]) = <<>> \/ IntOf(df2[Len(df2)][4]) = <<>>
    THEN {[kind |-> "ValueError"]}
    ELSE SummaryOfCounts(df2, Counts(df2[Len(df2)], ex),
                         {i \in DOMAIN df2 : df2[i][2] = SubTotalText})

\* the frame the summary works on: the parsed rows without the first
SummaryFrame(ex) == IF ex.kind = "table" /\ ex.rows # <<>> THEN Tail(ex.rows) ELSE <<>>

\* lines 129-137
SummaryOfTable(ex) ==
    IF ex.kind # "table" THEN {[kind |-> ex.kind]}
    ELSE IF ex.rows = <<>>
    THEN {[kind |-> "no_data", labeled |-> ex.labeled, unlabeled |-> ex.unlabeled]}
    ELSE SummaryOfFrame(SummaryFrame(ex), ex)

\* _rtf_soc_summary: every narrative (or error) the call may end with
RtfSocSummary(file) == SummaryOfTable(ExtractTableWithMultilevelHeader(file))

(***************************************************************************)
(* Inputs of the SOC Narrative Summarizer: texts laid out as the source    *)
(* reports are, from the number of sub-rows of each SOC group.             *)
(***************************************************************************)
\* SOC groups of a text
MaxGroups == 3
\* sub-rows of a SOC group
MaxSub == 5

RECURSIVE NumToStr(_)
NumToStr(n) ==
    IF n < 10 THEN <<Digits[n + 1]>> ELSE NumToStr(n \div 10) \o <<Digits[(n % 10) + 1]>>

\* the cells joined by " | "
RECURSIVE PipeLine(_)
PipeLine(cells) ==
    IF Len(cells) = 1 THEN cells[1]
    ELSE cells[1] \o <<" ", "|", " ">> \o PipeLine(Tail(cells))

RECURSIVE Flatten(_)
Flatten(seqs) == IF seqs = <<>> THEN <<>> ELSE Head(seqs) \o Flatten(Tail(seqs))

SubRowTotal(pat, i) ==
    CASE pat = "falling" -> 10 - i
      [] pat = "rising"  -> i
      [] pat = "tie"     -> IF i >= 4 THEN 1 ELSE 10 - i

GroupTotal(pat, g) ==
    CASE pat = "rising" -> 10 + g
      [] pat = "tie"    -> 15

\* the lines of SOC group g: the first sub-row carries the SOC name, the
\* others and the SubTotal row start with a blank cell
GroupLines(g, nsub, stPat, subPat) ==
    LET count(i) == NumToStr(SubRowTotal(subPat, i))
        pt(i)    == <<LowerCase[g]>> \o NumToStr(i)
        first(i) == IF i = 1 THEN <<UpperCase[g]>> ELSE <<>>
    IN  [i \in 1..nsub |-> PipeLine(<<first(i), pt(i), count(i), <<"0">>, count(i)>>)]
        \o <<PipeLine(<<<<>>, SubTotalText, NumToStr(GroupTotal(stPat, g)), <<"0">>,
                        NumToStr(GroupTotal(stPat, g))>>)>>

GrandKinds == {"four", "five", "dash", "zero", "none"}

GrandLines(kind) ==
    CASE kind = "four" -> <<PipeLine(<<TotalText, <<"1", "0">>, <<"3", "0">>, <<"4", "0">>>>)>>
      [] kind = "five" -> <<PipeLine(<<<<"A", "l", "l">>, TotalText, <<"1", "0">>, <<"3", "0">>, <<"4", "0">>>>)>>
      [] kind = "dash" -> <<PipeLine(<<TotalText, <<"-">>, <<"3", "0">>, <<"4", "0">>>>)>>
      [] kind = "zero" -> <<PipeLine(<<TotalText, <<"0">>, <<"0">>, <<"0">>>>)>>
      [] kind = "none" -> <<>>

HeaderKinds == {"both", "absent", "unpiped"}

HeaderLines(kind) ==
    CASE kind = "both" ->
            <<PipeLine(<<SocText, PtText, <<"S", "e", "r", "i", "o", "u", "s">>>>),
              PipeLine(<<<<>>, <<>>, NoText, YesText, TotalText>>)>>
      [] kind = "absent" -> <<>>
      [] kind = "unpiped" ->
            <<SocText \o <<" ">> \o PtText,
              PipeLine(<<<<>>, <<>>, NoText, YesText, TotalText>>)>>

\* a label row that precedes the first SOC group
LeadLines(lead) ==
    IF lead THEN <<PipeLine(<<<<"S", "O", "C">>, <<"P", "T">>, <<"n">>, <<"n">>, <<"n">>>>)>> ELSE <<>>

CountsLine == <<"|", " ", "5", " ", "|", " ", "2", " ", "|">>

SocTextLines(subs, stPat, subPat, grand, lead, header, marked) ==
    (IF marked THEN <<start_marker \o <<":">>, <<" ">>>> ELSE <<>>)
    \o HeaderLines(header)
    \o LeadLines(lead)
    \o Flatten([g \in DOMAIN subs |-> GroupLines(g, subs[g], stPat, subPat)])
    \o GrandLines(grand)
    \o <<end_marker, CountsLine>>

RtfPath == <<"c", ".", "r", "t", "f">>

SocFile(lines) == [exists |-> TRUE, path |-> RtfPath, lines |-> lines]

SocFiles ==
    \* the shape varies: groups, sub-rows, grand total row, label row
    {SocFile(SocTextLines(subs, "rising", "falling", grand, lead, "both", TRUE)) :
        subs \in SeqsUpTo(2..MaxSub, MaxGroups), grand \in GrandKinds, lead \in BOOLEAN}
    \cup
    \* the totals vary: equal totals among the groups and among the sub-rows
    {SocFile(SocTextLines(<<n, n, n>>, stPat, subPat, grand, TRUE, "both", TRUE)) :
        n \in {4, 5}, stPat \in {"rising", "tie"},
        subPat \in {"falling", "rising", "tie"}, grand \in {"four", "five"}}
    \cup
    \* one group more than the narrative names
    {SocFile(SocTextLines(<<5, 4, 5, 4>>, "rising", subPat, grand, lead, "both", TRUE)) :
        subPat \in {"falling", "rising"}, grand \in {"four", "five"}, lead \in BOOLEAN}
    \cup
    \* the headers and the markers vary
    {SocFile(SocTextLines(<<4, 4, 4>>, "rising", "falling", "four", TRUE, header, marked)) :
        header \in HeaderKinds, marked \in BOOLEAN}
    \cup
    \* the file varies
    {[exists |-> e, path |-> p, lines |-> <<CountsLine>>] :
        e \in BOOLEAN, p \in {RtfPath, <<"c", ".", "t", "x", "t">>}}

SocInputs == \E f \in SocFiles : soc = [pc |-> "call", file |-> f]

\* one call of _rtf_soc_summary(rtf_path); df2 is the frame it worked on
RtfSocSummaryCall ==
    /\ soc.pc = "call"
    /\ \E o \in RtfSocSummary(soc.file) :
          soc' = [pc |-> "done", file |-> soc.file, df2 |-> SummaryFrame(ExtractTableWithMultilevelHeader(soc.file)),
                  out |-> o]
    /\ UNCHANGED <<exposure, locator, textx, run>>

SocInit ==
    /\ SocInputs
    /\ exposure = Idle /\ locator = Idle /\ textx = Idle /\ run = Idle

SocNext == RtfSocSummaryCall

SpecSoc == SocInit /\ [][SocNext]_vars

(***************************************************************************)
(* Properties of _rtf_soc_summary.                                         *)
(***************************************************************************)
SocDone == soc.pc = "done"

Narratives == {"no_data", "zero_total", "insufficient", "ranked"}

SubTotalRows(df) == {i \in DOMAIN df : df[i][2] = <<"S", "u", "b", "T", "o", "t", "a", "l">>}

\* C5: for every text the extractor can read the summary returns a narrative
\* and raises nothing.
C5_SummaryNeverRaises ==
    (SocDone /\ ExtractTextFromDocument(soc.file).kind = "text") =>
        soc.out.kind \in Narratives

\* C7: with a nonzero grand total and fewer than 3 SubTotal rows the summary
\* returns the short sentence, never a ranked narrative.
C7_FewSubTotalsGiveShortSentence ==
    (/\ SocDone
     /\ soc.df2 # <<>>
     /\ TotalOf(soc.df2[Len(soc.df2)]) # 0
     /\ Cardinality(SubTotalRows(soc.df2)) < 3) =>
        soc.out.kind = "insufficient"

\* row i comes before row j in the stable descending order of Total
StableBefore(df, i, j) ==
    \/ TotalOf(df[i]) > TotalOf(df[j])
    \/ TotalOf(df[i]) = TotalOf(df[j]) /\ i < j

\* picked is the head of the stable descending order of the rows S
StableHead(df, picked, S) ==
    /\ \A k \in 1..(Len(picked) - 1) : StableBefore(df, picked[k], picked[k + 1])
    /\ \A r \in S \ {picked[k] : k \in DOMAIN picked} :
          StableBefore(df, picked[Len(picked)], r)

\* C9: rows of equal Total are ordered and cut by row order, in the top 3 of
\* the SubTotal rows and in the top 4 of the sub-rows of each leading SOC.
C9_TiesKeepRowOrder ==
    (SocDone /\ soc.out.kind = "ranked") =>
        LET df   == soc.df2
            socs == soc.out.socs
        IN  /\ StableHead(df, [b \in 1..3 |-> socs[b].row], SubTotalRows(df))
            /\ \A b \in 1..3 :
                  StableHead(df, [j \in 1..4 |-> socs[b].subs[j].row],
                             {i \in DOMAIN df : df[i][1] = socs[b].name} \ SubTotalRows(df))

(***************************************************************************)
(* Section 5.3 accumulation: section5_3.accumulate_section5_3.             *)
(* The lookup spreadsheet is [row, value, code]: whether a row matches the *)
(* medicine, its "DDD Value" (missing when NaN or without the column) and  *)
(* whether it has a "Drug Code". The network answer is an optional number. *)
(***************************************************************************)
\* fetch_ddd_fallback: NaN without a code, else what the request yields
\* (NaN on any error)
FetchDDDFallback(has_code, net) == IF has_code THEN net ELSE Missing

\* lines 258-266: the local value when there is one, else the fallback
ResolveDDD(lookup, net) ==
    IF lookup.row /\ IsNum(lookup.value) THEN lookup.value
    ELSE FetchDDDFallback(lookup.row /\ lookup.code, net)

\* a guard that forgets the DDD
ShouldPrepare_TableOnly(table_data, ddd_value) == table_data # <<>>

\* if table_data and pd.notna(ddd_value)
ShouldPrepare(table_data, ddd_value) == table_data # <<>> /\ IsNum(ddd_value)

\* lines 271-282: the computed result, or the error prepare_exposure_tables
\* raises
Section5_3Data(computed) ==
    IF computed.status = "returned"
    THEN [kind |-> "returned", prepared |-> TRUE, results |-> <<computed>>]
    ELSE [kind |-> computed.status, prepared |-> TRUE]

\* lines 268-282: table_data is none (<<>>) or <<frame>>
AccumulateWith(table_data, ddd_value, country) ==
    IF ShouldPrepare(table_data, ddd_value)
    THEN Section5_3Data(PrepareExposureTables(table_data[1], ddd_value, country, {}))
    ELSE [kind |-> "returned", prepared |-> FALSE, results |-> <<>>]

\* accumulate_section5_3
AccumulateSection5_3(table_data, lookup, net, country) ==
    AccumulateWith(table_data, ResolveDDD(lookup, net), country)

(***************************************************************************)
(* Section 6.3 accumulation: section6_3.accumulate_section6_3.             *)
(***************************************************************************)
\* the outcomes of one "excel summary + SOC summary" pair: a text, or the
\* error that leaves the function
PeriodSummaries(excel_readable, file) ==
    IF ~excel_readable THEN {[kind |-> "FileNotFoundError"]}
    ELSE RtfSocSummary(file)

\* accumulate_section6_3: the cumulative pair, then the interval pair when
\* both of its paths are set (interval is none or <<file>>)
AccumulateSection6_3(excel_readable, cumulative, interval) ==
    {IF c.kind \notin Narratives THEN [kind |-> c.kind]
     ELSE IF interval = <<>> THEN [kind |-> "returned", cumulative_text |-> c,
                                   interval_text |-> <<>>]
     ELSE IF i.kind \notin Narratives THEN [kind |-> i.kind]
     ELSE [kind |-> "returned", cumulative_text |-> c, interval_text |-> <<i>>] :
        c \in PeriodSummaries(excel_readable, cumulative),
        i \in IF interval = <<>> THEN {[kind |-> "unset"]}
              ELSE PeriodSummaries(excel_readable, interval[1])}

(***************************************************************************)
(* Orchestration: run_file.main. One step per section, then the save.      *)
(* paths says which sections have their input paths set; doc is the        *)
(* sequence of sections appended to the output document; calls is the      *)
(* sequence of writer functions invoked.                                   *)
(***************************************************************************)
COUNTRY == EuUk

SectionIds == {"5.2", "5.3", "6.3", "15"}

\* the extractor was called and its exception leaves main: nothing after
\* the failing section runs
Raise(section, error) ==
    [run EXCEPT !.pc = "raised", !.failed = section, !.error = error,
                !.extracted = Append(@, section)]

\* the extractor has returned and the writer appends its section to the
\* document
Written(r, section, writer, next) ==
    [r EXCEPT !.pc = next, !.doc = Append(@, section), !.calls = Append(@, writer),
              !.extracted = Append(@, section)]

\* lines 92-104: section 5.2
Section5_2 ==
    /\ run.pc = "5.2"
    /\ IF ~run.paths["5.2"] THEN run' = [run EXCEPT !.pc = "5.3"]
       ELSE run' = Written(run, "5.2", "write_section_5_2", "5.3")
    /\ UNCHANGED <<exposure, locator, textx, soc>>

SalesRow(country, units) ==
    [Country |-> country, Units |-> units, Strength |-> <<"1", " ", "m", "g">>]

\* what extract_table_after_text may hand over: no table, a header alone, a
\* parseable row, a row with an unparseable unit count
SalesTables ==
    {<<>>, <<<<>>>>,
     <<<<SalesRow(<<"U", "K">>, <<"1", ",", "0", "9", "5">>)>>>>,
     <<<<SalesRow(<<"F", "R">>, <<"n", "/", "a">>)>>>>}

Lookups ==
    {[row |-> FALSE, value |-> Missing, code |-> FALSE],
     [row |-> TRUE, value |-> <<4>>, code |-> TRUE],
     [row |-> TRUE, value |-> <<0>>, code |-> TRUE],
     [row |-> TRUE, value |-> Missing, code |-> TRUE],
     [row |-> TRUE, value |-> Missing, code |-> FALSE]}

NetAnswers == {Missing, <<2>>}

\* lines 116-130: the fallback text without results or with a zero total,
\* else the exposure tables; an error of the extractor leaves main
Rendered5_3(seen) ==
    IF seen.out.kind # "returned"
    THEN [Raise("5.3", seen.out.kind) EXCEPT !.s5_3 = seen]
    ELSE IF seen.out.results = <<>> \/ seen.out.results[1].combined_total = 0
    THEN [Written(run, "5.3", "generate_fallback_doc", "6.3") EXCEPT !.s5_3 = seen]
    ELSE [Written(run, "5.3", "generate_exposure_document", "6.3") EXCEPT !.s5_3 = seen]

\* lines 107-130: section 5.3
Section5_3 ==
    /\ run.pc = "5.3"
    /\ IF ~run.paths["5.3"] THEN run' = [run EXCEPT !.pc = "6.3"]
       ELSE \E t \in SalesTables, l \in Lookups, n \in NetAnswers :
              run' = Rendered5_3([table_data |-> t, lookup |-> l, net |-> n,
                                  out |-> AccumulateSection5_3(t, l, n, COUNTRY)])
    /\ UNCHANGED <<exposure, locator, textx, soc>>

RankedFile == SocFile(SocTextLines(<<4, 4, 4>>, "rising", "falling", "five", TRUE, "both", TRUE))

OneRowFile == SocFile(SocTextLines(<<>>, "rising", "falling", "zero", FALSE, "both", TRUE))

MissingFile == [exists |-> FALSE, path |-> RtfPath, lines |-> <<>>]

\* lines 133-140: section 6.3
Section6_3 ==
    /\ run.pc = "6.3"
    /\ IF ~run.paths["6.3"] THEN run' = [run EXCEPT !.pc = "15"]
       ELSE \E x \in BOOLEAN, c \in {RankedFile, OneRowFile, MissingFile},
               i \in {<<>>, <<RankedFile>>, <<MissingFile>>} :
              \E s6_3 \in AccumulateSection6_3(x, c, i) :
                  IF s6_3.kind # "returned" THEN run' = Raise("6.3", s6_3.kind)
                  ELSE run' = Written(run, "6.3", "write_section_6_3", "15")
    /\ UNCHANGED <<exposure, locator, textx, soc>>

\* line 47: the trailing comma makes the value a tuple of one element, the
\* path text (path_set says whether that text is filled in)
SECTION15_INPUT_PATH(path_set) == <<path_set>>

\* lines 143-145: section 15; the guard is the truth value of the tuple
Section15 ==
    /\ run.pc = "15"
    /\ IF SECTION15_INPUT_PATH(run.paths["15"]) = <<>> THEN run' = [run EXCEPT !.pc = "save"]
       ELSE run' = Written(run, "15", "write_section_15", "save")
    /\ UNCHANGED <<exposure, locator, textx, soc>>

\* lines 148-160: branding, doc.save, return
Save ==
    /\ run.pc = "save"
    /\ run' = [run EXCEPT !.pc = "done", !.saved = TRUE]
    /\ UNCHANGED <<exposure, locator, textx, soc>>

RunInputs ==
    \E p \in [SectionIds -> BOOLEAN] :
        run = [pc |-> "5.2", paths |-> p, doc |-> <<>>, calls |-> <<>>, extracted |-> <<>>,
               saved |-> FALSE, failed |-> "", error |-> "", s5_3 |-> Idle]

MainInit ==
    /\ RunInputs
    /\ exposure = Idle /\ locator = Idle /\ textx = Idle /\ soc = Idle

MainNext == Section5_2 \/ Section5_3 \/ Section6_3 \/ Section15 \/ Save

SpecMain == MainInit /\ [][MainNext]_vars

(***************************************************************************)
(* Properties of main and accumulate_section5_3.                           *)
(***************************************************************************)
\* C4: when the sales table is not found, or the DDD is found neither in the
\* lookup spreadsheet nor by the network fallback, accumulate_section5_3
\* does not call prepare_exposure_tables and returns results = None, and
\* main calls generate_fallback_doc and not generate_exposure_document.
C4_NoInputsGiveFallback ==
    (/\ run.s5_3 # Idle
     /\ \/ run.s5_3.table_data = <<>>
        \/ /\ ~(run.s5_3.lookup.row /\ run.s5_3.lookup.value # <<>>)
           /\ ~(run.s5_3.lookup.row /\ run.s5_3.lookup.code /\ run.s5_3.net # <<>>)) =>
        /\ run.s5_3.out.kind = "returned"
        /\ ~run.s5_3.out.prepared
        /\ run.s5_3.out.results = <<>>
        /\ \E k \in DOMAIN run.calls : run.calls[k] = "generate_fallback_doc"
        /\ \A k \in DOMAIN run.calls : run.calls[k] # "generate_exposure_document"

\* a sales table with a row, a lookup row without value or code: fallback
C4_Witness ==
    /\ run.s5_3 # Idle
    /\ run.s5_3.table_data # <<>>
    /\ run.s5_3.table_data[1] # <<>>
    /\ run.s5_3.lookup.row
    /\ run.s5_3.lookup.value = <<>>
    /\ run.s5_3.net = <<>>
    /\ \E k \in DOMAIN run.calls : run.calls[k] = "generate_fallback_doc"

\* C6: whatever section fails, every other section whose paths are set is
\* appended to the document and the document is saved.
C6_FailuresDoNotPropagate ==
    run.pc \in {"done", "raised"} =>
        /\ run.saved
        /\ \A s \in {"5.2", "5.3", "6.3", "15"} :
              (run.paths[s] /\ s # run.failed) => \E k \in DOMAIN run.doc : run.doc[k] = s

\* position of a section in the fixed order of the output document
SectionRank(s) == CASE s = "5.2" -> 1 [] s = "5.3" -> 2 [] s = "6.3" -> 3 [] s = "15" -> 4

\* C11: sections are appended in the order 5.2, 5.3, 6.3, 15, each at most
\* once and only after its extractor ran; a section whose path is unset has
\* neither its extractor nor its writer run; the document is saved only
\* after every section step is over.
C11_SectionsInOrderUnsetSkipped ==
    /\ \A i, j \in DOMAIN run.doc : i < j => SectionRank(run.doc[i]) < SectionRank(run.doc[j])
    /\ \A i, j \in DOMAIN run.extracted :
          i < j => SectionRank(run.extracted[i]) < SectionRank(run.extracted[j])
    /\ \A i \in DOMAIN run.doc : \E j \in DOMAIN run.extracted : run.extracted[j] = run.doc[i]
    /\ \A s \in SectionIds :
          ~run.paths[s] => /\ \A i \in DOMAIN run.extracted : run.extracted[i] # s
                           /\ \A i \in DOMAIN run.doc : run.doc[i] # s
    /\ run.saved => run.pc = "done"

(***************************************************************************)
(* Section 5.2 accumulation: section5_2.process_table_structure,           *)
(* _generate_demographic_summary and accumulate_section5_2. The call works *)
(* on a document as the Table Locator does, so its state is kept in the    *)
(* locator variable.                                                        *)
(***************************************************************************)
MaxDemoRows == 4

expected_columns ==
    <<"Molecule/Product", "Study Number", "Study Title", "Test product name",
      "Active comparator name", "Test Product", "Active Comparator", "Placebo", "Total",
      "Male", "Female", "<18 years", "18-65 years", ">65 years",
      "Asian", "Black", "Caucasian", "Other", "Unknown">>

numeric_columns ==
    {"Test Product", "Active Comparator", "Placebo", "Total", "Male", "Female",
     "<18 years", "18-65 years", ">65 years", "Asian", "Black", "Caucasian", "Other",
     "Unknown"}

\* pd.to_numeric(errors='coerce').fillna(0).astype(int) on one cell
CoerceInt(cell) == IF ToNumeric(cell) = <<>> THEN 0 ELSE ToNumeric(cell)[1]

\* pd.DataFrame(rows, columns=columns): the data is as wide as its longest
\* row (shorter rows are padded); another number of column names is refused
FrameOf(rows, columns) ==
    IF Max({Len(rows[i]) : i \in DOMAIN rows}) # Len(columns)
    THEN [kind |-> "ValueError"]
    ELSE [kind |-> "frame", columns |-> columns,
          rows |-> [i \in DOMAIN rows |->
                     [j \in DOMAIN columns |->
                        IF columns[j] \in numeric_columns
                        THEN IF j <= Len(rows[i]) THEN CoerceInt(rows[i][j]) ELSE 0
                        ELSE IF j <= Len(rows[i]) THEN rows[i][j] ELSE <<>>]]]

\* process_table_structure: None under 3 rows, else the typed frame of the
\* rows after the two header rows, named by the first num_cols expected names
ProcessTableStructure(table_data) ==
    IF Len(table_data) < 3 THEN [kind |-> "None"]
    ELSE FrameOf(SubSeq(table_data, 3, Len(table_data)),
                 SubSeq(expected_columns, 1,
                        Min({Len(table_data[1]), Len(expected_columns)})))

RECURSIVE SumCells(_, _, _)
SumCells(rows, j, i) == IF i > Len(rows) THEN 0 ELSE rows[i][j] + SumCells(rows, j, i + 1)

\* int(df[col].sum()) if col in df.columns: none when the column is absent
ColumnSum(df, col) ==
    IF \E j \in DOMAIN df.columns : df.columns[j] = col
    THEN <<SumCells(df.rows, CHOOSE j \in DOMAIN df.columns : df.columns[j] = col, 1)>>
    ELSE <<>>

\* the (count, name) parts with a positive count, in the order of cols
PositiveParts(df, cols) ==
    SelectSeq([k \in DOMAIN cols |-> [count |-> ColumnSum(df, cols[k]), name |-> cols[k]]],
              LAMBDA p : p.count # <<>> /\ p.count[1] > 0)

Unknown(what) == [kind |-> "unknown", what |-> what]

\* lines 161-172
GenderText(df) ==
    IF ColumnSum(df, "Male") = <<>> /\ ColumnSum(df, "Female") = <<>> THEN Unknown("gender")
    ELSE [kind |-> "gender",
          male |-> IF ColumnSum(df, "Male") = <<>> THEN 0 ELSE ColumnSum(df, "Male")[1],
          female |-> IF ColumnSum(df, "Female") = <<>> THEN 0 ELSE ColumnSum(df, "Female")[1]]

\* lines 166-176: the parts joined, or the "unknown" text without parts
PartsText(what, parts) ==
    IF parts = <<>> THEN Unknown(what) ELSE [kind |-> what, parts |-> parts]

\* the defaults of lines 188-197
DefaultSection5_2 ==
    [kind |-> "returned", nstudies |-> 0, total_subjects |-> 0,
     gender_text |-> Unknown("gender"), age_text |-> Unknown("age"),
     race_text |-> Unknown("racial"), table_structure |-> "None"]

\* _generate_demographic_summary with the table structure of line 202
DemographicSummary(df, table_structure) ==
    [kind |-> "returned", nstudies |-> Len(df.rows),
     total_subjects |-> IF ColumnSum(df, "Total") = <<>> THEN 0 ELSE ColumnSum(df, "Total")[1],
     gender_text |-> GenderText(df),
     age_text |-> PartsText("age", PositiveParts(df, <<"<18 years", "18-65 years", ">65 years">>)),
     race_text |-> PartsText("racial", PositiveParts(df, <<"Asian", "Black", "Caucasian",
                                                          "Other", "Unknown">>)),
     table_structure |-> table_structure]

\* lines 184-213 on the outcome of process_table_structure
Section5_2Data(df, table_structure) ==
    IF df.kind = "None" THEN DefaultSection5_2
    ELSE IF df.kind = "ValueError" THEN [kind |-> "ValueError"]
    ELSE DemographicSummary(df, table_structure)

\* accumulate_section5_2; html is what copy_table_via_html_conversion gives
\* back for the document, a structure or None
AccumulateSection5_2(exists, body, html) ==
    Section5_2Data(ProcessTableStructure(ExtractSpecificTable(exists, body).data), html)

\* rows of one width: a header row that holds a keyword, and data rows whose
\* cells all read "1", "2" or "x"
DemoWidths == {2, 12, 19, 20}

DemoHeader(w) == [j \in 1..w |-> IF j = 1 THEN <<"A", "g", "e">> ELSE <<"h">>]

DemoData(w, c) == [j \in 1..w |-> <<c>>]

DemoRows(w) == {DemoHeader(w)} \cup {DemoData(w, c) : c \in {"1", "2", "x"}}

\* a document without tables, or with one table of up to MaxDemoRows rows
DemoBodies ==
    {<<>>} \cup {<<Tbl(r)>> : r \in UNION {[1..k -> DemoRows(w)] :
                                              k \in 1..MaxDemoRows, w \in DemoWidths}}

DemographicsInputs ==
    \E e \in BOOLEAN, b \in DemoBodies, h \in {"None", "structure"} :
        locator = [pc |-> "call", exists |-> e, body |-> b, html |-> h]

\* one call of accumulate_section5_2(path, reporting_period, medname)
AccumulateSection5_2Call ==
    /\ locator.pc = "call"
    /\ locator' = [pc |-> "done", fn |-> "accumulate_section5_2",
                   exists |-> locator.exists, body |-> locator.body,
                   tbl |-> ExtractSpecificTable(locator.exists, locator.body).data,
                   out |-> AccumulateSection5_2(locator.exists, locator.body, locator.html)]
    /\ UNCHANGED <<exposure, textx, soc, run>>

DemographicsInit ==
    /\ DemographicsInputs
    /\ exposure = Idle /\ textx = Idle /\ soc = Idle /\ run = Idle

DemographicsNext == AccumulateSection5_2Call

SpecDemographics == DemographicsInit /\ [][DemographicsNext]_vars

\* C12: without a table, or with fewer than 3 rows after the header
\* de-duplication, accumulate_section5_2 returns the default record and does
\* not raise; with 3 or more rows it returns nstudies = row count - 2.
C12_DemographicsDefaults ==
    locator.pc = "done" =>
        /\ Len(locator.tbl) < 3 => locator.out = DefaultSection5_2
        /\ Len(locator.tbl) >= 3 => /\ locator.out.kind = "returned"
                                   /\ locator.out.nstudies = Len(locator.tbl) - 2

(***************************************************************************)
(* Properties of extract_table_after_text.                                 *)
(***************************************************************************)
\* positions in the body of the paragraphs that hold the marker
MarkerPositions(body) ==
    {i \in DOMAIN body : body[i].kind = "p" /\ SearchIgnoreCase(body[i].text, search_text)}

\* positions in the body of the tables that come after position i
TablesAfter(body, i) == {j \in DOMAIN body : j > i /\ body[j].kind = "tbl"}

\* C13: extract_table_after_text returns the earliest table after the first
\* marker paragraph, never a table before it, and nothing when the marker is
\* absent or no table follows it.
C13_FirstTableAfterMarker ==
    (locator.pc = "done" /\ locator.fn = "extract_table_after_text") =>
        LET body == locator.body
        IN  IF MarkerPositions(body) = {} THEN locator.out = NotFound
            ELSE IF TablesAfter(body, Min(MarkerPositions(body))) = {}
            THEN locator.out = NotFound
            ELSE LET t == Min(TablesAfter(body, Min(MarkerPositions(body))))
                 IN  /\ locator.out.found
                     /\ locator.out.table = Cardinality({j \in 1..t : body[j].kind = "tbl"})
                     /\ locator.out.data = PopDuplicateHeader(TableData(body[t]))

\* a table, the marker, another table: the second table is returned
C13_Witness ==
    /\ locator.pc = "done"
    /\ locator.fn = "extract_table_after_text"
    /\ locator.body = <<Tbl(<<RowAge, RowAge, RowData>>), MarkerParagraph,
                        Tbl(<<RowData, RowData>>)>>
    /\ locator.out.found
    /\ locator.out.table = 2
    /\ locator.out.data = <<RowData>>

(***************************************************************************)
(* The SOC table parser on its own: texts made of marker lines, header     *)
(* lines and data lines in any order.                                      *)
(***************************************************************************)
MaxLines == 4

MaxData == 3

StartLine == start_marker \o <<":">>

StartLineUpper == <<"F", "O", "R", " ", "T", "H", "E", " ", "C", "A", "S", "E", "S", " ", "I", "N", " ", "T", "H", "I", "S", " ", "R", "E", "P", "O", "R", "T">>

HeaderLine == HeaderLines("both")[1]

SubHeaderLine == HeaderLines("both")[2]

\* data lines of 5, 5, 4, 3 and 6 tokens, and a blank line
Line5A == PipeLine(<<<<"A">>, <<"a", "1">>, <<"1">>, <<"2">>, <<"3">>>>)

Line5B == PipeLine(<<<<"B">>, <<"b", "1">>, <<"4">>, <<"0">>, <<"4">>>>)

Line4 == PipeLine(<<<<>>, <<"p", "t">>, <<"2">>, <<"0">>, <<"2">>>>)

Line3 == PipeLine(<<<<"p", "t">>, <<"2">>, <<"2">>>>)

Line6 == PipeLine(<<<<"C">>, <<"c", "1">>, <<"1">>, <<"1">>, <<"2">>, <<"x">>>>)

BlankLine == <<" ">>

MarkerAlphabet == {StartLine, StartLineUpper, end_marker, HeaderLine, SubHeaderLine, Line5A}

DataAlphabet == {Line5A, Line5B, Line4, Line3, Line6, BlankLine}

ParserTexts ==
    \* the marker lines vary
    {ls \o <<CountsLine>> : ls \in SeqsUpTo(MarkerAlphabet, MaxLines)}
    \cup
    \* the data lines vary
    {<<StartLine, HeaderLine, SubHeaderLine>> \o ds \o <<end_marker, CountsLine>> :
        ds \in SeqsUpTo(DataAlphabet, MaxData)}

ParserInputs == \E ls \in ParserTexts : soc = [pc |-> "call", file |-> SocFile(ls)]

\* one call of extract_table_with_multilevel_header(path, start, end); markers
\* is what the loop of lines 48-54 leaves in start_idx and end_idx
ExtractTableWithMultilevelHeaderCall ==
    /\ soc.pc = "call"
    /\ soc' = [pc |-> "parsed", file |-> soc.file,
               markers |-> ScanMarkers(soc.file.lines, 1, <<>>),
               out |-> ExtractTableWithMultilevelHeader(soc.file)]
    /\ UNCHANGED <<exposure, locator, textx, run>>

ParserInit ==
    /\ ParserInputs
    /\ exposure = Idle /\ locator = Idle /\ textx = Idle /\ run = Idle

ParserNext == ExtractTableWithMultilevelHeaderCall

SpecParser == ParserInit /\ [][ParserNext]_vars

\* the lines that hold a marker, without regard to case
LinesWith(lines, marker) == {i \in DOMAIN lines : SearchIgnoreCase(lines[i], marker)}

\* C14: the parsed region starts at the first line that holds the start
\* marker and ends at the first line after it that holds the end marker,
\* however many start lines there are; without such a pair the result is an
\* empty table with the two counts.
C14_RegionFromFirstStart ==
    soc.pc = "parsed" =>
        LET lines  == soc.file.lines
            starts == LinesWith(lines, start_marker)
            ends   == {j \in LinesWith(lines, end_marker) : starts # {} /\ j > Min(starts)}
        IN  IF starts = {} \/ ends = {}
            THEN soc.out = [kind |-> "table", rows |-> <<>>, labeled |-> Labeled(lines),
                            unlabeled |-> Unlabeled(lines)]
            ELSE /\ soc.markers.start_idx = <<Min(starts)>>
                 /\ soc.markers.end_idx = <<Min(ends)>>

(***************************************************************************)
(* Further properties of prepare_exposure_tables.                          *)
(***************************************************************************)
\* the rows of a table without its last row
DataRows(table) == SubSeq(table, 1, Len(table) - 1)

\* how many times row r occurs in the sequence s
Occurrences(s, r) == Cardinality({i \in DOMAIN s : s[i] = r})

\* C15: the call returns two tables that each end with one "Total" row; the
\* rows before it are the de-duplicated rows, each in exactly one of the two
\* tables, in the country table exactly when its Country normalizes to the
\* country name or an alias.
C15_PartitionCoversRows ==
    ExposureDone =>
        /\ exposure.out.status = "returned"
        /\ LET o    == exposure.out
               ct   == o.country_table
               nt   == o.non_country_table
               wanted(r) == NormCountry(r.Country) \in
                               TargetCountries(exposure.country_name, exposure.country_aliases)
           IN  /\ Len(ct) >= 1 /\ ct[Len(ct)].Country = TotalText
               /\ Len(nt) >= 1 /\ nt[Len(nt)].Country = TotalText
               /\ Len(o.rows) = Cardinality({exposure.dataframe[i] : i \in DOMAIN exposure.dataframe})
               /\ \A i \in DOMAIN o.rows :
                     Occurrences(DataRows(ct), o.rows[i]) + Occurrences(DataRows(nt), o.rows[i])
                        = Occurrences(o.rows, o.rows[i])
               /\ Len(DataRows(ct)) + Len(DataRows(nt)) = Len(o.rows)
               /\ \A i \in DOMAIN DataRows(ct) : wanted(ct[i])
               /\ \A i \in DOMAIN DataRows(nt) : ~wanted(nt[i])

(***************************************************************************)
(* Properties of the SOC row parser.                                       *)
(***************************************************************************)
\* the text is a start line, the two header lines, data lines, the end line
\* and the counts line
FramedText(lines) ==
    /\ Len(lines) >= 5
    /\ SubSeq(lines, 1, 3) = <<StartLine, HeaderLine, SubHeaderLine>>
    /\ lines[Len(lines) - 1] = end_marker
    /\ \A i \in 4..(Len(lines) - 2) : lines[i] \in DataAlphabet

\* the SOC in force at data line i: the first token of the nearest 5-token
\* line before it, empty without one
SocInForce(d, i) ==
    LET fives == {j \in 1..(i - 1) : Len(NonBlankParts(d[j])) = 5}
    IN  IF fives = {} THEN <<>> ELSE NonBlankParts(d[Max(fives)])[1]

\* C16: each data line with 5 tokens gives a row of its tokens, each with 4
\* tokens a row of the SOC in force and its tokens, any other line gives no
\* row and leaves the SOC in force alone; every row has 5 fields.
C16_RowsByTokenCount ==
    (soc.pc = "parsed" /\ FramedText(soc.file.lines)) =>
        LET d    == SubSeq(soc.file.lines, 4, Len(soc.file.lines) - 2)
            kept == SelectSeq([i \in DOMAIN d |-> i],
                              LAMBDA i : Len(NonBlankParts(d[i])) \in {4, 5})
            rows == soc.out.rows
        IN  /\ soc.out.kind = "table"
            /\ Len(rows) = Len(kept)
            /\ \A k \in DOMAIN kept :
                  /\ Len(rows[k]) = 5
                  /\ rows[k] = IF Len(NonBlankParts(d[kept[k]])) = 5
                               THEN NonBlankParts(d[kept[k]])
                               ELSE <<SocInForce(d, kept[k])>> \o NonBlankParts(d[kept[k]])

\* a 5-token line, a 6-token line and a 4-token line: two rows, the second
\* under the SOC of the first
C16_Witness ==
    /\ soc.pc = "parsed"
    /\ soc.file.lines = <<StartLine, HeaderLine, SubHeaderLine, Line5A, Line6, Line4,
                          end_marker, CountsLine>>
    /\ soc.out.kind = "table"
    /\ soc.out.rows = <<<<<<"A">>, <<"a", "1">>, <<"1">>, <<"2">>, <<"3">>>>,
                        <<<<"A">>, <<"p", "t">>, <<"2">>, <<"0">>, <<"2">>>>>>

(***************************************************************************)
(* Properties of the ranked narrative.                                     *)
(***************************************************************************)
\* picked lists distinct rows of S, no Total rising along it, and no row of
\* S left out has a larger Total than its last row
LargestInOrder(df, picked, S) ==
    /\ \A k \in DOMAIN picked : picked[k] \in S
    /\ \A k, l \in DOMAIN picked : k < l => /\ picked[k] # picked[l]
                                            /\ TotalOf(df[picked[k]]) >= TotalOf(df[picked[l]])
    /\ \A r \in S \ {picked[k] : k \in DOMAIN picked} :
          TotalOf(df[r]) <= TotalOf(df[picked[Len(picked)]])

\* C17: a ranked narrative names the three SubTotal rows of largest Total,
\* largest first, lists for each the four rows of that SOC other than its
\* SubTotal row of largest Total, largest first, and gives each SOC total as
\* the nearest whole percentage of the grand total.
C17_RankedNarrativeContent ==
    (SocDone /\ soc.out.kind = "ranked") =>
        LET df    == soc.df2
            socs  == soc.out.socs
            total == TotalOf(df[Len(df)])
        IN  /\ total # 0
            /\ Cardinality(SubTotalRows(df)) >= 3
            /\ soc.out.total = total
            /\ LargestInOrder(df, [b \in 1..3 |-> socs[b].row], SubTotalRows(df))
            /\ \A b \in 1..3 :
                  /\ socs[b].name = df[socs[b].row][1]
                  /\ socs[b].n = TotalOf(df[socs[b].row])
                  /\ 2 * Abs(socs[b].pct * total - 100 * socs[b].n) <= total
                  /\ LargestInOrder(df, [j \in 1..4 |-> socs[b].subs[j].row],
                                    {i \in DOMAIN df : df[i][1] = socs[b].name}
                                        \ SubTotalRows(df))
                  /\ \A j \in 1..4 : /\ socs[b].subs[j].name = df[socs[b].subs[j].row][2]
                                     /\ socs[b].subs[j].n = TotalOf(df[socs[b].subs[j].row])

\* four SOC groups with totals 11 to 14 and the grand total 40: the
\* narrative names d, c and b with 35, 32 and 30 percent
C17_Witness ==
    /\ SocDone
    /\ soc.out.kind = "ranked"
    /\ Cardinality(SubTotalRows(soc.df2)) = 4
    /\ soc.out.total = 40
    /\ [b \in 1..3 |-> soc.out.socs[b].n] = <<14, 13, 12>>
    /\ [b \in 1..3 |-> soc.out.socs[b].pct] = <<35, 32, 30>>
    /\ [j \in 1..4 |-> soc.out.socs[2].subs[j].n] = <<9, 8, 7, 6>>

\* C20: in a ranked narrative over a text that ends with a "Total" line the
\* grand-total row, the last row of the frame, is none of the four
\* sub-diseases listed for a leading SOC and none of the three leading SOC
\* groups.
C20_GrandTotalNotListed ==
    (SocDone /\ soc.out.kind = "ranked" /\ soc.df2[Len(soc.df2)][2] = TotalText) =>
        \A b \in 1..3 :
            /\ soc.out.socs[b].row # Len(soc.df2)
            /\ \A j \in 1..4 : soc.out.socs[b].subs[j].row # Len(soc.df2)

============================================================================
